---- MODULE Spec2Model ----
(***************************************************************************)
(* Asset-linked record lifecycle of the content API: the blog, client,     *)
(* team and portfolio route handlers, the Cloudinary adapter and the       *)
(* public-id resolver.  Every request handler is a process that advances   *)
(* one external call (document store or Cloudinary) at a time; the         *)
(* synchronous code between two awaits is part of the step that ends the   *)
(* first await.                                                            *)
(*                                                                         *)
(* A JavaScript string is a sequence of tokens.  The tokens "/" and "."    *)
(* are those characters; every other token is a non-empty run of           *)
(* characters holding neither of them ("upload" is the text upload).       *)
(***************************************************************************)
EXTENDS Integers, Sequences, FiniteSets, TLC

\* Number of documents the store ever creates (ObjectIds are never reused).
MaxIds == 2

---------------------------------------------------------------------------
\* JavaScript values

undefined == <<"#undefined">>
null == <<"#null">>
\* an array-valued field that is not supplied
noArray == <<undefined>>

Truthy(v) == v # undefined /\ v # null /\ v # <<>>

\* url.split('/')
RECURSIVE Split(_)
Split(s) ==
  IF \A i \in 1..Len(s) : s[i] # "/" THEN <<s>>
  ELSE LET k == CHOOSE i \in 1..Len(s) : s[i] = "/" /\ \A j \in 1..(i-1) : s[j] # "/"
       IN <<SubSeq(s, 1, k-1)>> \o Split(SubSeq(s, k+1, Len(s)))

\* parts.join('/')
RECURSIVE Join(_)
Join(parts) ==
  IF Len(parts) = 0 THEN <<>>
  ELSE IF Len(parts) = 1 THEN parts[1]
  ELSE parts[1] \o <<"/">> \o Join(Tail(parts))

\* s.replace(/\.[^/.]+$/, '')
StripExtension(s) ==
  LET dots == {i \in 1..Len(s) : /\ s[i] = "."
                                 /\ i < Len(s)
                                 /\ \A j \in (i+1)..Len(s) : s[j] \notin {"/", "."}}
  IN IF dots = {} THEN s
     ELSE SubSeq(s, 1, (CHOOSE i \in dots : TRUE) - 1)

\* uploadIndex is 1-based here, so slice(uploadIndex + 2) starts at uploadIndex + 2.
extractPublicIdFromUrl(url) ==
  IF ~Truthy(url) THEN null
  ELSE LET urlParts == Split(url)
           hits == {i \in 1..Len(urlParts) : urlParts[i] = <<"upload">>}
       IN IF hits = {} THEN null
          ELSE LET uploadIndex == CHOOSE i \in hits : \A j \in hits : i <= j
               IN StripExtension(Join(SubSeq(urlParts, uploadIndex + 2, Len(urlParts))))

\* The copy in the blog and client routers has no guard: url.split throws for
\* a url that is not a string and the catch returns null; the rest is the same.
extractPublicIdFromUrlUnguarded(url) ==
  IF url \in {undefined, null} THEN null
  ELSE LET urlParts == Split(url)
           hits == {i \in 1..Len(urlParts) : urlParts[i] = <<"upload">>}
       IN IF hits = {} THEN null
          ELSE LET uploadIndex == CHOOSE i \in hits : \A j \in hits : i <= j
               IN StripExtension(Join(SubSeq(urlParts, uploadIndex + 2, Len(urlParts))))

\* The launches of deleteMultipleImages(imageUrls, publicIds = []), in order.
RECURSIVE TruthyOnly(_)
TruthyOnly(xs) ==
  IF Len(xs) = 0 THEN <<>>
  ELSE (IF Truthy(xs[1]) THEN <<xs[1]>> ELSE <<>>) \o TruthyOnly(Tail(xs))

deleteMultipleImages(imageUrls, publicIds) ==
  LET ids == IF publicIds = noArray THEN <<>> ELSE publicIds
  IN IF Len(ids) > 0 THEN TruthyOnly(ids)
     ELSE IF imageUrls # noArray /\ Len(imageUrls) > 0
       THEN TruthyOnly([i \in 1..Len(imageUrls) |-> extractPublicIdFromUrl(imageUrls[i])])
       ELSE <<>>

---------------------------------------------------------------------------
\* Values the requests are drawn from

Names == {"a", "b"}
PublicIdOf(n) == <<n>>
UrlOf(n) == <<"https:", "/", "/", "host", "/", "upload", "/", "v1", "/", n, ".", "jpg">>
Titles == {<<"t1">>, <<"t2">>}

Colls == {"blog", "client", "team", "portfolio", "career", "contact"}
Slots == {"r1", "r2"}
RecIds == 1..MaxIds


---------------------------------------------------------------------------
\* State

VARIABLES
  db,      \* document store: ObjectId -> document (coll = "none": no document)
  remote,  \* Cloudinary: the public ids that exist
  req,     \* the request each handler slot is serving
  nextId,  \* next ObjectId the store hands out
  orphans, \* history: the assets a finished request left orphaned
  clean,   \* history: no store call failed and every supplied reference was fresh
  tracking, \* whether this behaviour records the history
  arg,     \* the url a caller hands to extractPublicIdFromUrl
  ret      \* what that call returned (undefined: not called yet)

vars == <<db, remote, req, nextId, orphans, clean, tracking, arg, ret>>

NoDoc ==
  [coll |-> "none", image |-> undefined, publicId |-> undefined,
   gallery |-> <<>>, galleryIds |-> <<>>, title |-> undefined]

NoBody ==
  [image |-> undefined, publicId |-> undefined, gallery |-> noArray,
   galleryIds |-> noArray, title |-> undefined, fields |-> "ok",
   removed |-> noArray, removedIds |-> noArray, ids |-> {}]

NoResp == [status |-> 0, deletedCount |-> -1]

Idle ==
  [op |-> "idle", coll |-> "none", id |-> 0, body |-> NoBody, pc |-> "idle",
   doc |-> NoDoc, docs |-> <<>>, calls |-> <<>>, wrote |-> FALSE,
   storeFailed |-> FALSE, resp |-> NoResp]

Init ==
  /\ db = [i \in RecIds |-> NoDoc]
  /\ remote = {PublicIdOf(n) : n \in Names}
  /\ req = [s \in Slots |-> Idle]
  /\ nextId = 1
  /\ orphans = {}
  /\ clean = TRUE
  /\ arg = undefined
  /\ ret = undefined
  /\ tracking = FALSE

\* The same start, for the behaviours that record the history.
InitHistory ==
  /\ db = [i \in RecIds |-> NoDoc]
  /\ remote = {PublicIdOf(n) : n \in Names}
  /\ req = [s \in Slots |-> Idle]
  /\ nextId = 1
  /\ orphans = {}
  /\ clean = TRUE
  /\ arg = undefined
  /\ ret = undefined
  /\ tracking = TRUE

\* The requests of a behaviour address one collection at a time: a request
\* arrives only while the store holds documents of no other collection.
OneCollection(coll) == \A i \in RecIds : db[i].coll \in {"none", coll}

NewReq(op, coll, id, body, pc) ==
  [Idle EXCEPT !.op = op, !.coll = coll, !.id = id, !.body = body, !.pc = pc]

\* res.status(status).json(...)
Respond(r, status) ==
  [r EXCEPT !.pc = "done", !.resp = [status |-> status, deletedCount |-> -1]]

\* A document-store call threw: the handler's catch answers 500.
StoreError(r) == [Respond(r, 500) EXCEPT !.storeFailed = TRUE]

Found(coll, id) == id \in RecIds /\ db[id].coll = coll

\* The references a create supplies and those an update may supply: with
\* the identifier of the url's asset, with none, with the identifier alone.
RefsNew ==
  {[image |-> UrlOf("a"), publicId |-> PublicIdOf("a")],
   [image |-> UrlOf("a"), publicId |-> undefined],
   [image |-> undefined, publicId |-> undefined]}

RefsPatch ==
  {[image |-> UrlOf("b"), publicId |-> PublicIdOf("b")],
   [image |-> UrlOf("b"), publicId |-> undefined],
   [image |-> undefined, publicId |-> PublicIdOf("b")],
   [image |-> undefined, publicId |-> undefined]}

RefBody(ref) == [NoBody EXCEPT !.image = ref.image, !.publicId = ref.publicId]

\* The bodies of a create or update whose other fields are valid, and one
\* body for each way they are not.
Bodies(refs, invalid) ==
  {RefBody(ref) : ref \in refs}
    \cup {[RefBody([image |-> UrlOf("b"), publicId |-> PublicIdOf("b")]) EXCEPT !.fields = f] :
            f \in invalid}

---------------------------------------------------------------------------
\* Cloudinary

\* What cloudinary.uploader.destroy(publicId) can answer: its result string,
\* "error" for any other result, "throw" for a rejected call.
Outcomes(publicId) ==
  {IF publicId \in remote THEN "ok" ELSE "not found", "error", "throw"}

\* The store after deleteImage(publicId) ended with outcome o.
deleteImage(publicId, o) == IF o = "ok" THEN remote \ {publicId} ELSE remote

\* The calls of r that have been issued and have not settled, and the one
\* that settles next (Cloudinary answers the calls of a request in turn).
Pending(r) == {i \in 1..Len(r.calls) : r.calls[i].out = "pending"}

NextToSettle(r) == {i \in Pending(r) : \A j \in Pending(r) : i <= j}

\* r issues one destroy call per entry of publicIds.
Launch(r, publicIds) ==
  [r EXCEPT !.calls = @ \o [i \in 1..Len(publicIds) |->
                              [pid |-> publicIds[i], out |-> "pending", wrote |-> r.wrote]]]

\* Variant of Settled in which a failed call cancels the calls still pending.
SettledCancelsRest(r, i, o) ==
  [r EXCEPT !.calls = [j \in 1..Len(r.calls) |->
                         IF j = i THEN [r.calls[j] EXCEPT !.out = o]
                         ELSE IF o \in {"error", "throw"} /\ r.calls[j].out = "pending"
                           THEN [r.calls[j] EXCEPT !.out = "cancelled"]
                         ELSE r.calls[j]]]

\* Call i of r has settled with outcome o.
Settled(r, i, o) == [r EXCEPT !.calls[i].out = o]

Failed(o) == o \notin {"ok", "not found"}

---------------------------------------------------------------------------
\* Asset lifecycle

\* The identifier of a reference: the explicit one, else the one its url gives.
Resolve(url, publicId) ==
  IF Truthy(publicId) THEN publicId ELSE extractPublicIdFromUrl(url)

\* The identifiers of the references a document owns.
OwnedIds(doc) ==
  {id \in {Resolve(doc.image, doc.publicId)}
            \cup {Resolve(doc.gallery[i],
                          IF i <= Len(doc.galleryIds) THEN doc.galleryIds[i] ELSE undefined) :
                    i \in 1..Len(doc.gallery)} : Truthy(id)}

\* A live record of the store docs references the asset publicId.
ReferencedIn(docs, publicId) ==
  \E i \in RecIds : docs[i].coll # "none" /\ publicId \in OwnedIds(docs[i])

Referenced(publicId) == ReferencedIn(db, publicId)

\* No live record references the asset and the remote object still exists.
Orphaned(publicId) == publicId \in remote /\ ~Referenced(publicId)

PublicIds == {PublicIdOf(n) : n \in Names}

\* The assets of the documents request r loaded.
LoadedIds(r) ==
  OwnedIds(r.doc) \cup UNION {OwnedIds(r.docs[i]) : i \in 1..Len(r.docs)}

\* The assets the body of a request names: its main reference and its gallery.
SuppliedMain(body) ==
  {id \in {Resolve(body.image, body.publicId)} : Truthy(id)}

SuppliedGallery(body) ==
  IF body.gallery = noArray THEN {}
  ELSE {id \in {Resolve(body.gallery[i],
                        IF body.galleryIds # noArray /\ i <= Len(body.galleryIds)
                        THEN body.galleryIds[i] ELSE undefined) :
                  i \in 1..Len(body.gallery)} : Truthy(id)}

\* Every reference of the body names one object, no two name the same one,
\* and each object is freshly uploaded: it exists and no record, live or
\* deleted, has referenced it.
FreshBody(body) ==
  /\ Truthy(body.image) /\ Truthy(body.publicId)
       => extractPublicIdFromUrl(body.image) = body.publicId
  /\ SuppliedMain(body) \cap SuppliedGallery(body) = {}
  /\ body.gallery # noArray
       => Cardinality(SuppliedGallery(body)) = Len(body.gallery)
  /\ \A publicId \in SuppliedMain(body) \cup SuppliedGallery(body) :
        publicId \in remote /\ ~Referenced(publicId) /\ publicId \notin orphans

\* The history after a step: a request that finishes its handler leaves
\* orphaned the assets of the documents it loaded that no live record
\* references any more and that still exist remotely.
Record ==
  /\ UNCHANGED <<arg, ret>>
  /\ tracking' = tracking
  /\ clean' =
       IF ~tracking THEN clean
       ELSE /\ clean
            /\ \A s \in Slots :
                 /\ req[s].pc = "idle" /\ req'[s].pc # "idle"
                      => FreshBody(req'[s].body)
                 /\ ~req'[s].storeFailed
                 /\ \A i \in 1..Len(req'[s].calls) :
                      req'[s].calls[i].out \notin {"error", "throw"}
  /\ orphans' =
       IF ~tracking THEN orphans
       ELSE orphans \cup
              {publicId \in PublicIds :
                 \E s \in Slots :
                   /\ req[s].pc # "done" /\ req'[s].pc = "done"
                   /\ publicId \in LoadedIds(req'[s])
                   /\ publicId \in remote' /\ ~ReferencedIn(db', publicId)}

---------------------------------------------------------------------------
\* Document store

\* PortfolioSchema's unique slug, made from the title: another live project
\* has this title.
SlugTaken(title, id) ==
  \E i \in RecIds : i # id /\ db[i].coll = "portfolio" /\ db[i].title = title

\* document.save() of a loaded document: the modified paths are written.
SavePaths(cur, loaded, new) ==
  [coll |-> cur.coll,
   image |-> IF new.image # loaded.image THEN new.image ELSE cur.image,
   publicId |-> IF new.publicId # loaded.publicId THEN new.publicId ELSE cur.publicId,
   gallery |-> IF new.gallery # loaded.gallery THEN new.gallery ELSE cur.gallery,
   galleryIds |-> IF new.galleryIds # loaded.galleryIds THEN new.galleryIds ELSE cur.galleryIds,
   title |-> IF new.title # loaded.title THEN new.title ELSE cur.title]

\* The schema's required paths are present: a career has a title, a contact's
\* required fields are checked by its handler, the others have an image.
Valid(doc) ==
  IF doc.coll = "career" THEN Truthy(doc.title)
  ELSE IF doc.coll = "contact" THEN TRUE
  ELSE Truthy(doc.image)

\* Variant of Insert that, when the save fails, issues a compensating delete
\* of the asset the request uploaded.
InsertCompensating(s, r, doc, ok) ==
  \/ /\ req' = [req EXCEPT ![s] =
                  StoreError(Launch(r, <<Resolve(doc.image, doc.publicId)>>))]
     /\ UNCHANGED <<db, nextId>>
  \/ /\ Valid(doc)
     /\ ~Truthy(doc.title) \/ ~SlugTaken(doc.title, 0)
     /\ nextId <= MaxIds
     /\ db' = [db EXCEPT ![nextId] = doc]
     /\ nextId' = nextId + 1
     /\ req' = [req EXCEPT ![s] = [ok EXCEPT !.id = nextId, !.wrote = TRUE]]

\* await doc.save() of a new document: fails (store error, required path
\* empty, slug taken), or inserts under a fresh id; ok is the request after
\* the insert.
Insert(s, r, doc, ok) ==
  \/ /\ req' = [req EXCEPT ![s] = StoreError(r)]
     /\ UNCHANGED <<db, nextId>>
  \/ /\ Valid(doc)
     /\ ~Truthy(doc.title) \/ ~SlugTaken(doc.title, 0)
     /\ nextId <= MaxIds
     /\ db' = [db EXCEPT ![nextId] = doc]
     /\ nextId' = nextId + 1
     /\ req' = [req EXCEPT ![s] = [ok EXCEPT !.id = nextId, !.wrote = TRUE]]

\* await doc.save() of a loaded document: fails (store error, required path
\* empty, slug taken, document gone), or writes the modified paths; ok is
\* the request after the write.
Save(s, r, new, ok) ==
  \/ /\ req' = [req EXCEPT ![s] = StoreError(r)]
     /\ UNCHANGED db
  \/ /\ Valid(new)
     /\ new.title = r.doc.title \/ ~SlugTaken(new.title, r.id)
     /\ new = r.doc \/ Found(r.coll, r.id)
     /\ db' = IF new = r.doc THEN db
              ELSE [db EXCEPT ![r.id] = SavePaths(db[r.id], r.doc, new)]
     /\ req' = [req EXCEPT ![s] = [ok EXCEPT !.wrote = TRUE]]

\* await Model.findByIdAndDelete(id), then the success response
FindByIdAndDelete(s, r) ==
  \/ /\ req' = [req EXCEPT ![s] = StoreError(r)]
     /\ UNCHANGED db
  \/ /\ db' = [db EXCEPT ![r.id] = IF Found(r.coll, r.id) THEN NoDoc ELSE @]
     /\ req' = [req EXCEPT ![s] = Respond([r EXCEPT !.wrote = TRUE], 200)]

\* Variant of FindById without the not-found check.
FindByIdUnchecked(s, r, next) ==
  /\ \/ req' = [req EXCEPT ![s] = StoreError(r)]
     \/ req' = [req EXCEPT ![s] = next]
  /\ UNCHANGED <<db, remote, nextId>>

\* await Model.findById(id): fails, finds nothing (404), or loads the
\* document; next is the request after the synchronous code that follows.
FindById(s, r, next) ==
  /\ \/ req' = [req EXCEPT ![s] = StoreError(r)]
     \/ /\ ~Found(r.coll, r.id)
        /\ req' = [req EXCEPT ![s] = Respond(r, 404)]
     \/ /\ Found(r.coll, r.id)
        /\ req' = [req EXCEPT ![s] = next]
  /\ UNCHANGED <<db, remote, nextId>>

At(s, coll, op, pc) == req[s].coll = coll /\ req[s].op = op /\ req[s].pc = pc

\* A request arrives at a free handler slot.
Receive(s, r) ==
  /\ req[s].pc = "idle"
  /\ req' = [req EXCEPT ![s] = r]
  /\ UNCHANGED <<db, remote, nextId>>

\* The pending call i of r settles with outcome o; next is the request after it.
Settle(s, r, i, o, next) ==
  /\ remote' = deleteImage(r.calls[i].pid, o)
  /\ req' = [req EXCEPT ![s] = next]
  /\ UNCHANGED <<db, nextId>>

---------------------------------------------------------------------------
\* Blog routes

BlogPostRecv(s) ==
  /\ nextId <= MaxIds
  /\ OneCollection("blog")
  /\ \E ref \in RefsNew : Receive(s, NewReq("create", "blog", 0, RefBody(ref), "save"))
  /\ Record

BlogPostSave(s) ==
  /\ At(s, "blog", "create", "save")
  /\ LET r == req[s]
         blog == [NoDoc EXCEPT !.coll = "blog", !.image = r.body.image,
                               !.publicId = r.body.publicId]
     IN Insert(s, r, blog, Respond(r, 201))
  /\ UNCHANGED remote
  /\ Record

BlogPutRecv(s) ==
  /\ OneCollection("blog")
  /\ \E id \in RecIds, ref \in RefsPatch :
    Receive(s, NewReq("update", "blog", id, RefBody(ref), "find"))
  /\ Record

BlogPutFind(s) ==
  /\ At(s, "blog", "update", "find")
  /\ LET r == req[s]
     IN FindById(s, r, [r EXCEPT !.doc = db[r.id], !.pc = "save"])
  /\ Record

\* Object.assign(blog, req.body); await blog.save()
BlogPutSave(s) ==
  /\ At(s, "blog", "update", "save")
  /\ LET r == req[s]
         blog == [r.doc EXCEPT
                    !.image = IF r.body.image # undefined THEN r.body.image ELSE @,
                    !.publicId = IF r.body.publicId # undefined THEN r.body.publicId ELSE @]
     IN Save(s, r, blog, Respond(r, 200))
  /\ UNCHANGED <<remote, nextId>>
  /\ Record

BlogDeleteRecv(s) ==
  /\ OneCollection("blog")
  /\ \E id \in RecIds : Receive(s, NewReq("delete", "blog", id, NoBody, "find"))
  /\ Record

\* The request after findById loaded the document of a strict-policy delete:
\* the destroy call it issues, if any.
StrictDeleteLoaded(r, doc) ==
  LET r1 == [r EXCEPT !.doc = doc]
      publicId == extractPublicIdFromUrl(doc.image)
  IN IF Truthy(doc.publicId)
       THEN [Launch(r1, <<doc.publicId>>) EXCEPT !.pc = "destroy"]
     ELSE IF Truthy(doc.image) /\ Truthy(publicId)
       THEN [Launch(r1, <<publicId>>) EXCEPT !.pc = "destroy"]
     ELSE [r1 EXCEPT !.pc = "remove"]

\* Variant of StrictDeleteSettled that accepts the result "ok" alone.
StrictDeleteSettledOkOnly(r, i, o) ==
  IF Truthy(r.doc.publicId) /\ o # "ok"
    THEN Respond(Settled(r, i, o), 500)
    ELSE [Settled(r, i, o) EXCEPT !.pc = "remove"]

\* The request after its destroy call settled with outcome o: only the
\* stored-identifier branch aborts on a failure.
StrictDeleteSettled(r, i, o) ==
  IF Truthy(r.doc.publicId) /\ Failed(o)
    THEN Respond(Settled(r, i, o), 500)
    ELSE [Settled(r, i, o) EXCEPT !.pc = "remove"]

BlogDeleteFind(s) ==
  /\ At(s, "blog", "delete", "find")
  /\ FindById(s, req[s], StrictDeleteLoaded(req[s], db[req[s].id]))
  /\ Record

BlogDeleteDestroy(s) ==
  /\ At(s, "blog", "delete", "destroy")
  /\ LET r == req[s]
     IN \E i \in NextToSettle(r) : \E o \in Outcomes(r.calls[i].pid) :
          Settle(s, r, i, o, StrictDeleteSettled(r, i, o))
  /\ Record

BlogDeleteRemove(s) ==
  /\ At(s, "blog", "delete", "remove")
  /\ FindByIdAndDelete(s, req[s])
  /\ UNCHANGED <<remote, nextId>>
  /\ Record

BlogRoutes(s) ==
  \/ BlogPostRecv(s) \/ BlogPostSave(s)
  \/ BlogPutRecv(s) \/ BlogPutFind(s) \/ BlogPutSave(s)
  \/ BlogDeleteRecv(s) \/ BlogDeleteFind(s) \/ BlogDeleteDestroy(s) \/ BlogDeleteRemove(s)

---------------------------------------------------------------------------
\* Client routes

ClientPostRecv(s) ==
  /\ nextId <= MaxIds
  /\ OneCollection("client")
  /\ \E body \in Bodies(RefsNew, {"missing"}) :
       LET r == NewReq("create", "client", 0, body, "save")
       IN Receive(s, IF body.fields = "missing" \/ ~Truthy(body.image)
                       THEN Respond(r, 400) ELSE r)
  /\ Record

ClientPostSave(s) ==
  /\ At(s, "client", "create", "save")
  /\ LET r == req[s]
         client == [NoDoc EXCEPT !.coll = "client", !.image = r.body.image,
                      !.publicId = IF Truthy(r.body.publicId) THEN r.body.publicId ELSE <<>>]
     IN Insert(s, r, client, Respond(r, 201))
  /\ UNCHANGED remote
  /\ Record

ClientPutRecv(s) ==
  /\ OneCollection("client")
  /\ \E id \in RecIds, ref \in RefsPatch :
    Receive(s, NewReq("update", "client", id, RefBody(ref), "find"))
  /\ Record

ClientPutFind(s) ==
  /\ At(s, "client", "update", "find")
  /\ LET r == req[s]
     IN FindById(s, r, [r EXCEPT !.doc = db[r.id], !.pc = "save"])
  /\ Record

\* The request after client.save() succeeded: the cleanup call, or the response.
ClientPutSaved(r) ==
  IF Truthy(r.body.image) /\ r.body.image # r.doc.image /\ Truthy(r.doc.publicId)
    THEN [Launch([r EXCEPT !.wrote = TRUE], <<r.doc.publicId>>) EXCEPT !.pc = "destroy"]
    ELSE Respond(r, 200)

ClientPutSave(s) ==
  /\ At(s, "client", "update", "save")
  /\ LET r == req[s]
         client == [r.doc EXCEPT
                      !.image = IF Truthy(r.body.image) THEN r.body.image ELSE @,
                      !.publicId = IF r.body.publicId # undefined THEN r.body.publicId ELSE @]
     IN Save(s, r, client, ClientPutSaved(r))
  /\ UNCHANGED <<remote, nextId>>
  /\ Record

ClientPutDestroy(s) ==
  /\ At(s, "client", "update", "destroy")
  /\ LET r == req[s]
     IN \E i \in NextToSettle(r) : \E o \in Outcomes(r.calls[i].pid) :
          Settle(s, r, i, o, Respond(Settled(r, i, o), 200))
  /\ Record

ClientDeleteRecv(s) ==
  /\ OneCollection("client")
  /\ \E id \in RecIds : Receive(s, NewReq("delete", "client", id, NoBody, "find"))
  /\ Record

ClientDeleteFind(s) ==
  /\ At(s, "client", "delete", "find")
  /\ FindById(s, req[s], StrictDeleteLoaded(req[s], db[req[s].id]))
  /\ Record

ClientDeleteDestroy(s) ==
  /\ At(s, "client", "delete", "destroy")
  /\ LET r == req[s]
     IN \E i \in NextToSettle(r) : \E o \in Outcomes(r.calls[i].pid) :
          Settle(s, r, i, o, StrictDeleteSettled(r, i, o))
  /\ Record

ClientDeleteRemove(s) ==
  /\ At(s, "client", "delete", "remove")
  /\ FindByIdAndDelete(s, req[s])
  /\ UNCHANGED <<remote, nextId>>
  /\ Record

ClientRoutes(s) ==
  \/ ClientPostRecv(s) \/ ClientPostSave(s)
  \/ ClientPutRecv(s) \/ ClientPutFind(s) \/ ClientPutSave(s) \/ ClientPutDestroy(s)
  \/ ClientDeleteRecv(s) \/ ClientDeleteFind(s) \/ ClientDeleteDestroy(s)
  \/ ClientDeleteRemove(s)

---------------------------------------------------------------------------
\* Team routes

TeamPostRecv(s) ==
  /\ nextId <= MaxIds
  /\ OneCollection("team")
  /\ \E body \in Bodies(RefsNew, {"missing", "short"}) :
       LET r == NewReq("create", "team", 0, body, "save")
       IN Receive(s, IF body.fields # "ok" \/ ~Truthy(body.image)
                       THEN Respond(r, 400) ELSE r)
  /\ Record

TeamPostSave(s) ==
  /\ At(s, "team", "create", "save")
  /\ LET r == req[s]
         teamMember == [NoDoc EXCEPT !.coll = "team", !.image = r.body.image,
                                     !.publicId = r.body.publicId]
     IN Insert(s, r, teamMember, Respond(r, 201))
  /\ UNCHANGED remote
  /\ Record

TeamPutRecv(s) ==
  /\ OneCollection("team")
  /\ \E id \in RecIds, body \in Bodies(RefsPatch, {"short"}) :
       Receive(s, NewReq("update", "team", id, body, "find"))
  /\ Record

\* Variant of TeamPutLoaded that destroys the stored avatar whenever the
\* request supplies one, changed or not.
TeamPutLoadedAlways(r, doc) ==
  LET r1 == [r EXCEPT !.doc = doc]
  IN IF r.body.fields = "short" THEN Respond(r1, 400)
     ELSE IF Truthy(r.body.image) /\ Truthy(doc.publicId)
       THEN [Launch(r1, <<doc.publicId>>) EXCEPT !.pc = "destroy"]
     ELSE [r1 EXCEPT !.pc = "save"]

\* The request after findById loaded the team member: validation, then the
\* destroy call for the old avatar, issued before the save.
TeamPutLoaded(r, doc) ==
  LET r1 == [r EXCEPT !.doc = doc]
  IN IF r.body.fields = "short" THEN Respond(r1, 400)
     ELSE IF Truthy(r.body.image) /\ r.body.image # doc.image /\ Truthy(doc.publicId)
       THEN [Launch(r1, <<doc.publicId>>) EXCEPT !.pc = "destroy"]
     ELSE [r1 EXCEPT !.pc = "save"]

TeamPutFind(s) ==
  /\ At(s, "team", "update", "find")
  /\ FindById(s, req[s], TeamPutLoaded(req[s], db[req[s].id]))
  /\ Record

TeamPutDestroy(s) ==
  /\ At(s, "team", "update", "destroy")
  /\ LET r == req[s]
     IN \E i \in NextToSettle(r) : \E o \in Outcomes(r.calls[i].pid) :
          Settle(s, r, i, o, [Settled(r, i, o) EXCEPT !.pc = "save"])
  /\ Record

TeamPutSave(s) ==
  /\ At(s, "team", "update", "save")
  /\ LET r == req[s]
         teamMember == [r.doc EXCEPT
                          !.image = IF r.body.image # undefined THEN r.body.image ELSE @,
                          !.publicId = IF r.body.publicId # undefined THEN r.body.publicId ELSE @]
     IN Save(s, r, teamMember, Respond(r, 200))
  /\ UNCHANGED <<remote, nextId>>
  /\ Record

TeamDeleteRecv(s) ==
  /\ OneCollection("team")
  /\ \E id \in RecIds : Receive(s, NewReq("delete", "team", id, NoBody, "find"))
  /\ Record

TeamDeleteLoaded(r, doc) ==
  LET r1 == [r EXCEPT !.doc = doc]
  IN IF Truthy(doc.publicId)
       THEN [Launch(r1, <<doc.publicId>>) EXCEPT !.pc = "destroy"]
       ELSE [r1 EXCEPT !.pc = "remove"]

TeamDeleteFind(s) ==
  /\ At(s, "team", "delete", "find")
  /\ FindById(s, req[s], TeamDeleteLoaded(req[s], db[req[s].id]))
  /\ Record

\* Variant of TeamDeleteSettled that aborts the delete on a failed destroy.
BestEffortSettledStrict(r, i, o) ==
  IF Failed(o) THEN Respond(Settled(r, i, o), 500)
  ELSE [Settled(r, i, o) EXCEPT !.pc = "remove"]

\* The request after the avatar's destroy call settled with outcome o.
TeamDeleteSettled(r, i, o) == [Settled(r, i, o) EXCEPT !.pc = "remove"]

TeamDeleteDestroy(s) ==
  /\ At(s, "team", "delete", "destroy")
  /\ LET r == req[s]
     IN \E i \in NextToSettle(r) : \E o \in Outcomes(r.calls[i].pid) :
          Settle(s, r, i, o, TeamDeleteSettled(r, i, o))
  /\ Record

TeamDeleteRemove(s) ==
  /\ At(s, "team", "delete", "remove")
  /\ FindByIdAndDelete(s, req[s])
  /\ UNCHANGED <<remote, nextId>>
  /\ Record

TeamRoutes(s) ==
  \/ TeamPostRecv(s) \/ TeamPostSave(s)
  \/ TeamPutRecv(s) \/ TeamPutFind(s) \/ TeamPutDestroy(s) \/ TeamPutSave(s)
  \/ TeamDeleteRecv(s) \/ TeamDeleteFind(s) \/ TeamDeleteDestroy(s) \/ TeamDeleteRemove(s)

---------------------------------------------------------------------------
\* Portfolio routes

\* Portfolio.findOne({ title, _id: { $ne: id } }) finds a project.
TitleTaken(title, id) ==
  \E i \in RecIds : i # id /\ db[i].coll = "portfolio" /\ db[i].title = title

PortfolioPostBodies ==
  {[b EXCEPT !.title = t] : b \in Bodies(RefsNew, {}), t \in Titles}
    \cup {[RefBody([image |-> UrlOf("a"), publicId |-> undefined]) EXCEPT
             !.title = t, !.gallery = <<UrlOf("b")>>,
             !.galleryIds = <<PublicIdOf("b")>>] : t \in Titles}
    \cup {[b EXCEPT !.title = <<"t1">>] : b \in Bodies({}, {"missing", "short"})}

PortfolioPostRecv(s) ==
  /\ nextId <= MaxIds
  /\ OneCollection("portfolio")
  /\ \E body \in PortfolioPostBodies :
       LET r == NewReq("create", "portfolio", 0, body, "dup")
       IN Receive(s, IF body.fields # "ok" \/ ~Truthy(body.title) \/ ~Truthy(body.image)
                       THEN Respond(r, 400) ELSE r)
  /\ Record

\* await Portfolio.findOne({ title })
PortfolioPostDup(s) ==
  /\ At(s, "portfolio", "create", "dup")
  /\ LET r == req[s]
     IN \/ req' = [req EXCEPT ![s] = StoreError(r)]
        \/ /\ TitleTaken(r.body.title, 0)
           /\ req' = [req EXCEPT ![s] = Respond(r, 400)]
        \/ /\ ~TitleTaken(r.body.title, 0)
           /\ req' = [req EXCEPT ![s] = [r EXCEPT !.pc = "save"]]
  /\ UNCHANGED <<db, remote, nextId>>
  /\ Record

PortfolioPostSave(s) ==
  /\ At(s, "portfolio", "create", "save")
  /\ LET r == req[s]
         portfolio ==
           [coll |-> "portfolio",
            image |-> r.body.image,
            publicId |-> IF Truthy(r.body.publicId) THEN r.body.publicId ELSE <<>>,
            gallery |-> IF r.body.gallery # noArray THEN r.body.gallery ELSE <<>>,
            galleryIds |-> IF r.body.galleryIds # noArray THEN r.body.galleryIds ELSE <<>>,
            title |-> r.body.title]
     IN Insert(s, r, portfolio, Respond(r, 201))
  /\ UNCHANGED remote
  /\ Record

PortfolioPutBodies ==
  {[RefBody(ref) EXCEPT !.title = t] :
     t \in Titles \cup {undefined},
     ref \in {[image |-> UrlOf("b"), publicId |-> PublicIdOf("b")],
              [image |-> undefined, publicId |-> undefined]}}
    \cup {RefBody([image |-> UrlOf("b"), publicId |-> undefined])}
    \cup {[NoBody EXCEPT !.removed = <<UrlOf("b")>>, !.removedIds = ids,
                         !.gallery = <<>>, !.galleryIds = <<>>] :
            ids \in {noArray, <<PublicIdOf("b")>>}}
    \cup {[NoBody EXCEPT !.removed = <<UrlOf("b")>>, !.gallery = <<>>,
                         !.galleryIds = <<>>, !.title = <<"t1">>]}

PortfolioPutRecv(s) ==
  /\ OneCollection("portfolio")
  /\ \E id \in RecIds, body \in PortfolioPutBodies :
    Receive(s, NewReq("update", "portfolio", id, body, "find"))
  /\ Record

\* The duplicate-title query, if the title is being changed; else the save.
PortfolioPutCheckTitle(r) ==
  IF Truthy(r.body.title) /\ r.body.title # r.doc.title
    THEN [r EXCEPT !.pc = "dup"] ELSE [r EXCEPT !.pc = "save"]

\* "Handle main image change": the destroy call for the old main image.
PortfolioPutMainImage(r) ==
  LET oldPublicId == extractPublicIdFromUrl(r.doc.image)
  IN IF Truthy(r.body.image) /\ r.body.image # r.doc.image
       THEN IF Truthy(r.doc.publicId)
              THEN [Launch(r, <<r.doc.publicId>>) EXCEPT !.pc = "main"]
            ELSE IF Truthy(r.doc.image) /\ Truthy(oldPublicId)
              THEN [Launch(r, <<oldPublicId>>) EXCEPT !.pc = "main"]
            ELSE PortfolioPutCheckTitle(r)
       ELSE PortfolioPutCheckTitle(r)

\* "Handle removed gallery images", right after the project is loaded.
PortfolioPutLoaded(r, doc) ==
  LET r1 == [r EXCEPT !.doc = doc]
      launches == deleteMultipleImages(r.body.removed, r.body.removedIds)
  IN IF r.body.removed # noArray /\ Len(r.body.removed) > 0 /\ Len(launches) > 0
       THEN [Launch(r1, launches) EXCEPT !.pc = "dmi"]
       ELSE PortfolioPutMainImage(r1)

PortfolioPutFind(s) ==
  /\ At(s, "portfolio", "update", "find")
  /\ FindById(s, req[s], PortfolioPutLoaded(req[s], db[req[s].id]))
  /\ Record

\* await Promise.allSettled(deletionPromises): one call settles; after the
\* last one the handler goes on.
PortfolioPutRemoved(s) ==
  /\ At(s, "portfolio", "update", "dmi")
  /\ LET r == req[s]
     IN \E i \in NextToSettle(r) : \E o \in Outcomes(r.calls[i].pid) :
          Settle(s, r, i, o, IF Pending(r) = {i}
                               THEN PortfolioPutMainImage(Settled(r, i, o))
                               ELSE Settled(r, i, o))
  /\ Record

PortfolioPutMain(s) ==
  /\ At(s, "portfolio", "update", "main")
  /\ LET r == req[s]
     IN \E i \in NextToSettle(r) : \E o \in Outcomes(r.calls[i].pid) :
          Settle(s, r, i, o, PortfolioPutCheckTitle(Settled(r, i, o)))
  /\ Record

\* await Portfolio.findOne({ title, _id: { $ne: id } })
PortfolioPutDup(s) ==
  /\ At(s, "portfolio", "update", "dup")
  /\ LET r == req[s]
     IN \/ req' = [req EXCEPT ![s] = StoreError(r)]
        \/ /\ TitleTaken(r.body.title, r.id)
           /\ req' = [req EXCEPT ![s] = Respond(r, 400)]
        \/ /\ ~TitleTaken(r.body.title, r.id)
           /\ req' = [req EXCEPT ![s] = [r EXCEPT !.pc = "save"]]
  /\ UNCHANGED <<db, remote, nextId>>
  /\ Record

\* Object.assign(portfolio, updateData); await portfolio.save()
updateData(portfolio, body) ==
  [coll |-> portfolio.coll,
   image |-> IF Truthy(body.image) THEN body.image ELSE portfolio.image,
   publicId |-> IF Truthy(body.publicId) THEN body.publicId ELSE portfolio.publicId,
   gallery |-> IF body.gallery # noArray THEN body.gallery ELSE portfolio.gallery,
   galleryIds |-> IF body.galleryIds # noArray THEN body.galleryIds ELSE portfolio.galleryIds,
   title |-> IF Truthy(body.title) THEN body.title ELSE portfolio.title]

PortfolioPutSave(s) ==
  /\ At(s, "portfolio", "update", "save")
  /\ LET r == req[s]
         new == updateData(r.doc, r.body)
     IN Save(s, r, new, Respond(r, 200))
  /\ UNCHANGED <<remote, nextId>>
  /\ Record

\* "Collect all images to delete" over the loaded projects: the urls that
\* have no public id, and the public ids.
RECURSIVE imagesToDelete(_)
imagesToDelete(docs) ==
  IF Len(docs) = 0 THEN <<>>
  ELSE LET portfolio == docs[1]
       IN (IF ~Truthy(portfolio.publicId) /\ Truthy(portfolio.image)
             THEN <<portfolio.image>> ELSE <<>>)
          \o (IF Len(portfolio.galleryIds) = 0 THEN portfolio.gallery ELSE <<>>)
          \o imagesToDelete(Tail(docs))

RECURSIVE publicIdsToDelete(_)
publicIdsToDelete(docs) ==
  IF Len(docs) = 0 THEN <<>>
  ELSE LET portfolio == docs[1]
       IN (IF Truthy(portfolio.publicId) THEN <<portfolio.publicId>> ELSE <<>>)
          \o portfolio.galleryIds
          \o publicIdsToDelete(Tail(docs))

\* Variant of PortfolioDeleteLoaded that does not await the deletions it
\* launched before it goes on to remove the projects.
PortfolioDeleteLoadedNoAwait(r, docs) ==
  LET launches == deleteMultipleImages(imagesToDelete(docs), publicIdsToDelete(docs))
  IN [Launch(r, launches) EXCEPT !.pc = "remove"]

\* The request after the projects to delete were loaded.
PortfolioDeleteLoaded(r, docs) ==
  LET launches == deleteMultipleImages(imagesToDelete(docs), publicIdsToDelete(docs))
  IN IF Len(launches) > 0
       THEN [Launch(r, launches) EXCEPT !.pc = "dmi"]
       ELSE [r EXCEPT !.pc = "remove"]

PortfolioDeleteRecv(s) ==
  /\ OneCollection("portfolio")
  /\ \E id \in RecIds : Receive(s, NewReq("delete", "portfolio", id, NoBody, "find"))
  /\ Record

PortfolioDeleteFind(s) ==
  /\ At(s, "portfolio", "delete", "find")
  /\ LET r == req[s]
     IN FindById(s, r, PortfolioDeleteLoaded([r EXCEPT !.doc = db[r.id], !.docs = <<db[r.id]>>],
                                             <<db[r.id]>>))
  /\ Record

PortfolioDeleteImages(s) ==
  /\ At(s, "portfolio", "delete", "dmi")
  /\ LET r == req[s]
     IN \E i \in NextToSettle(r) : \E o \in Outcomes(r.calls[i].pid) :
          Settle(s, r, i, o, IF Pending(r) = {i}
                               THEN [Settled(r, i, o) EXCEPT !.pc = "remove"]
                               ELSE Settled(r, i, o))
  /\ Record

PortfolioDeleteRemove(s) ==
  /\ At(s, "portfolio", "delete", "remove")
  /\ FindByIdAndDelete(s, req[s])
  /\ UNCHANGED <<remote, nextId>>
  /\ Record

\* The ids of S in ascending order.
RECURSIVE Ascending(_)
Ascending(S) ==
  IF S = {} THEN <<>>
  ELSE LET m == CHOOSE x \in S : \A y \in S : x <= y
       IN <<m>> \o Ascending(S \ {m})

\* Variant of Matching that matches the first of the projects only (deleteOne).
MatchingOne(ids) ==
  {i \in ids : Found("portfolio", i) /\ \A j \in ids : Found("portfolio", j) => i <= j}

\* The projects the filter { _id: { $in: ids } } matches
Matching(ids) == {i \in ids : Found("portfolio", i)}

PortfolioBulkRecv(s) ==
  /\ OneCollection("portfolio")
  /\ \E ids \in SUBSET RecIds :
    LET r == NewReq("bulk", "portfolio", 0, [NoBody EXCEPT !.ids = ids], "find")
    IN Receive(s, IF ids = {} THEN Respond(r, 400) ELSE r)
  /\ Record

\* await Portfolio.find({ _id: { $in: ids } })
PortfolioBulkFind(s) ==
  /\ At(s, "portfolio", "bulk", "find")
  /\ LET r == req[s]
         found == Ascending(Matching(r.body.ids))
         portfolios == [i \in 1..Len(found) |-> db[found[i]]]
     IN \/ req' = [req EXCEPT ![s] = StoreError(r)]
        \/ /\ Len(portfolios) = 0
           /\ req' = [req EXCEPT ![s] = Respond(r, 404)]
        \/ /\ Len(portfolios) > 0
           /\ req' = [req EXCEPT ![s] =
                        PortfolioDeleteLoaded([r EXCEPT !.docs = portfolios], portfolios)]
  /\ UNCHANGED <<db, remote, nextId>>
  /\ Record

PortfolioBulkImages(s) ==
  /\ At(s, "portfolio", "bulk", "dmi")
  /\ LET r == req[s]
     IN \E i \in NextToSettle(r) : \E o \in Outcomes(r.calls[i].pid) :
          Settle(s, r, i, o, IF Pending(r) = {i}
                               THEN [Settled(r, i, o) EXCEPT !.pc = "remove"]
                               ELSE Settled(r, i, o))
  /\ Record

\* await Portfolio.deleteMany({ _id: { $in: ids } }), then the response
\* with result.deletedCount
PortfolioBulkRemove(s) ==
  /\ At(s, "portfolio", "bulk", "remove")
  /\ LET r == req[s]
         gone == Matching(r.body.ids)
     IN \/ /\ req' = [req EXCEPT ![s] = StoreError(r)]
           /\ UNCHANGED db
        \/ /\ db' = [i \in RecIds |-> IF i \in gone THEN NoDoc ELSE db[i]]
           /\ req' = [req EXCEPT ![s] =
                        [r EXCEPT !.pc = "done", !.wrote = TRUE,
                                  !.resp = [status |-> 200, deletedCount |-> Cardinality(gone)]]]
  /\ UNCHANGED <<remote, nextId>>
  /\ Record

PortfolioRoutes(s) ==
  \/ PortfolioPostRecv(s) \/ PortfolioPostDup(s) \/ PortfolioPostSave(s)
  \/ PortfolioPutRecv(s) \/ PortfolioPutFind(s) \/ PortfolioPutRemoved(s)
  \/ PortfolioPutMain(s) \/ PortfolioPutDup(s) \/ PortfolioPutSave(s)
  \/ PortfolioDeleteRecv(s) \/ PortfolioDeleteFind(s) \/ PortfolioDeleteImages(s)
  \/ PortfolioDeleteRemove(s)
  \/ PortfolioBulkRecv(s) \/ PortfolioBulkFind(s) \/ PortfolioBulkImages(s)
  \/ PortfolioBulkRemove(s)

---------------------------------------------------------------------------
\* Career routes.  A career has no asset; title is its title field.

\* await Model.deleteMany({ _id: { $in: ids } }), then the response with
\* result.deletedCount (no lookup before it).
DeleteMany(s, r) ==
  LET gone == {i \in r.body.ids : Found(r.coll, i)}
  IN \/ /\ req' = [req EXCEPT ![s] = StoreError(r)]
        /\ UNCHANGED db
     \/ /\ db' = [i \in RecIds |-> IF i \in gone THEN NoDoc ELSE db[i]]
        /\ req' = [req EXCEPT ![s] =
                     [r EXCEPT !.pc = "done", !.wrote = TRUE,
                               !.resp = [status |-> 200, deletedCount |-> Cardinality(gone)]]]

\* The bodies of a create or update with a title, and one with a required
\* field empty.
TitleBodies(titles) ==
  {[NoBody EXCEPT !.title = t] : t \in titles} \cup {[NoBody EXCEPT !.fields = "missing"]}

CareerPostRecv(s) ==
  /\ nextId <= MaxIds
  /\ OneCollection("career")
  /\ \E body \in TitleBodies(Titles) :
       LET r == NewReq("create", "career", 0, body, "save")
       IN Receive(s, IF body.fields # "ok" THEN Respond(r, 400) ELSE r)
  /\ Record

CareerPostSave(s) ==
  /\ At(s, "career", "create", "save")
  /\ LET r == req[s]
         career == [NoDoc EXCEPT !.coll = "career", !.title = r.body.title]
     IN Insert(s, r, career, Respond(r, 201))
  /\ UNCHANGED remote
  /\ Record

CareerPutRecv(s) ==
  /\ OneCollection("career")
  /\ \E id \in RecIds, body \in TitleBodies(Titles \cup {undefined}) :
       Receive(s, NewReq("update", "career", id, body, "find"))
  /\ Record

CareerPutFind(s) ==
  /\ At(s, "career", "update", "find")
  /\ LET r == req[s]
         r1 == [r EXCEPT !.doc = db[r.id]]
     IN FindById(s, r, IF r.body.fields # "ok" THEN Respond(r1, 400)
                       ELSE [r1 EXCEPT !.pc = "save"])
  /\ Record

\* Object.assign(career, updateData); await career.save()
CareerPutSave(s) ==
  /\ At(s, "career", "update", "save")
  /\ LET r == req[s]
         career == [r.doc EXCEPT
                      !.title = IF r.body.title # undefined THEN r.body.title ELSE @]
     IN Save(s, r, career, Respond(r, 200))
  /\ UNCHANGED <<remote, nextId>>
  /\ Record

CareerDeleteRecv(s) ==
  /\ OneCollection("career")
  /\ \E id \in RecIds : Receive(s, NewReq("delete", "career", id, NoBody, "find"))
  /\ Record

CareerDeleteFind(s) ==
  /\ At(s, "career", "delete", "find")
  /\ LET r == req[s]
     IN FindById(s, r, [r EXCEPT !.doc = db[r.id], !.pc = "remove"])
  /\ Record

CareerDeleteRemove(s) ==
  /\ At(s, "career", "delete", "remove")
  /\ FindByIdAndDelete(s, req[s])
  /\ UNCHANGED <<remote, nextId>>
  /\ Record

CareerBulkRecv(s) ==
  /\ OneCollection("career")
  /\ \E ids \in SUBSET RecIds :
       LET r == NewReq("bulk", "career", 0, [NoBody EXCEPT !.ids = ids], "remove")
       IN Receive(s, IF ids = {} THEN Respond(r, 400) ELSE r)
  /\ Record

CareerBulkRemove(s) ==
  /\ At(s, "career", "bulk", "remove")
  /\ DeleteMany(s, req[s])
  /\ UNCHANGED <<remote, nextId>>
  /\ Record

CareerRoutes(s) ==
  \/ CareerPostRecv(s) \/ CareerPostSave(s)
  \/ CareerPutRecv(s) \/ CareerPutFind(s) \/ CareerPutSave(s)
  \/ CareerDeleteRecv(s) \/ CareerDeleteFind(s) \/ CareerDeleteRemove(s)
  \/ CareerBulkRecv(s) \/ CareerBulkRemove(s)

---------------------------------------------------------------------------
\* Contact routes.  A contact has no asset; title holds its notes field.

ContactPostRecv(s) ==
  /\ nextId <= MaxIds
  /\ OneCollection("contact")
  /\ \E body \in TitleBodies({undefined}) :
       LET r == NewReq("create", "contact", 0, body, "recent")
       IN Receive(s, IF body.fields # "ok" THEN Respond(r, 400) ELSE r)
  /\ Record

\* await Contact.findOne({ email, createdAt: { $gte: a day ago } }): a stored
\* contact may be a recent submission of this email (429).
ContactPostRecent(s) ==
  /\ At(s, "contact", "create", "recent")
  /\ LET r == req[s]
     IN \/ req' = [req EXCEPT ![s] = StoreError(r)]
        \/ /\ \E i \in RecIds : Found("contact", i)
           /\ req' = [req EXCEPT ![s] = Respond(r, 429)]
        \/ req' = [req EXCEPT ![s] = [r EXCEPT !.pc = "save"]]
  /\ UNCHANGED <<db, remote, nextId>>
  /\ Record

ContactPostSave(s) ==
  /\ At(s, "contact", "create", "save")
  /\ LET r == req[s]
         newContact == [NoDoc EXCEPT !.coll = "contact", !.title = <<>>]
     IN Insert(s, r, newContact, Respond(r, 201))
  /\ UNCHANGED remote
  /\ Record

ContactPutRecv(s) ==
  /\ OneCollection("contact")
  /\ \E id \in RecIds, t \in Titles \cup {undefined} :
       Receive(s, NewReq("update", "contact", id, [NoBody EXCEPT !.title = t], "update"))
  /\ Record

\* await Contact.findByIdAndUpdate(id, updateData, { new: true }): fails,
\* finds nothing (404), or writes updateData
ContactPutUpdate(s) ==
  /\ At(s, "contact", "update", "update")
  /\ LET r == req[s]
     IN \/ /\ req' = [req EXCEPT ![s] = StoreError(r)]
           /\ UNCHANGED db
        \/ /\ ~Found("contact", r.id)
           /\ req' = [req EXCEPT ![s] = Respond(r, 404)]
           /\ UNCHANGED db
        \/ /\ Found("contact", r.id)
           /\ db' = [db EXCEPT ![r.id].title =
                       IF r.body.title # undefined THEN r.body.title ELSE @]
           /\ req' = [req EXCEPT ![s] =
                        Respond([r EXCEPT !.doc = db[r.id], !.wrote = TRUE], 200)]
  /\ UNCHANGED <<remote, nextId>>
  /\ Record

ContactDeleteRecv(s) ==
  /\ OneCollection("contact")
  /\ \E id \in RecIds : Receive(s, NewReq("delete", "contact", id, NoBody, "remove"))
  /\ Record

\* await Contact.findByIdAndDelete(id): fails, finds nothing (404), or
\* removes the contact
ContactDeleteRemove(s) ==
  /\ At(s, "contact", "delete", "remove")
  /\ LET r == req[s]
     IN \/ /\ req' = [req EXCEPT ![s] = StoreError(r)]
           /\ UNCHANGED db
        \/ /\ ~Found("contact", r.id)
           /\ req' = [req EXCEPT ![s] = Respond(r, 404)]
           /\ UNCHANGED db
        \/ /\ Found("contact", r.id)
           /\ db' = [db EXCEPT ![r.id] = NoDoc]
           /\ req' = [req EXCEPT ![s] =
                        Respond([r EXCEPT !.doc = db[r.id], !.wrote = TRUE], 200)]
  /\ UNCHANGED <<remote, nextId>>
  /\ Record

ContactBulkRecv(s) ==
  /\ OneCollection("contact")
  /\ \E ids \in SUBSET RecIds :
       LET r == NewReq("bulk", "contact", 0, [NoBody EXCEPT !.ids = ids], "remove")
       IN Receive(s, IF ids = {} THEN Respond(r, 400) ELSE r)
  /\ Record

ContactBulkRemove(s) ==
  /\ At(s, "contact", "bulk", "remove")
  /\ DeleteMany(s, req[s])
  /\ UNCHANGED <<remote, nextId>>
  /\ Record

ContactRoutes(s) ==
  \/ ContactPostRecv(s) \/ ContactPostRecent(s) \/ ContactPostSave(s)
  \/ ContactPutRecv(s) \/ ContactPutUpdate(s)
  \/ ContactDeleteRecv(s) \/ ContactDeleteRemove(s)
  \/ ContactBulkRecv(s) \/ ContactBulkRemove(s)

---------------------------------------------------------------------------
\* The response has been sent: the handler's slot is free again.
---------------------------------------------------------------------------
\* Cloudinary routes: POST /delete, the direct asset delete.  The body's
\* publicId field is the identifier to destroy.

CloudinaryDeleteRecv(s) ==
  /\ \E publicId \in PublicIds \cup {undefined} :
       LET r == NewReq("destroy", "none", 0, [NoBody EXCEPT !.publicId = publicId],
                       "destroy")
       IN Receive(s, IF ~Truthy(publicId) THEN Respond(r, 400)
                       ELSE Launch(r, <<publicId>>))
  /\ Record

\* The answer of POST /delete once deleteImage settled with outcome o: a
\* rejection is answered 500, every returned result 200.
CloudinaryDeleteSettled(r, i, o) ==
  Respond(Settled(r, i, o), IF o = "throw" THEN 500 ELSE 200)

CloudinaryDeleteDestroy(s) ==
  /\ At(s, "none", "destroy", "destroy")
  /\ LET r == req[s]
     IN \E i \in NextToSettle(r) : \E o \in Outcomes(r.calls[i].pid) :
          Settle(s, r, i, o, CloudinaryDeleteSettled(r, i, o))
  /\ Record

CloudinaryRoutes(s) == CloudinaryDeleteRecv(s) \/ CloudinaryDeleteDestroy(s)

---------------------------------------------------------------------------
Reply(s) ==
  /\ req[s].pc = "done"
  /\ req' = [req EXCEPT ![s] = Idle]
  /\ UNCHANGED <<db, remote, nextId>>
  /\ Record

Routes(s) ==
  \/ BlogRoutes(s) \/ ClientRoutes(s) \/ TeamRoutes(s) \/ PortfolioRoutes(s)
  \/ CareerRoutes(s) \/ ContactRoutes(s)
  \/ Reply(s)

\* One request at a time.
Next == Routes("r1")

Spec == Init /\ [][Next]_vars

\* The same behaviours, with the history of orphaned assets recorded.
SpecHistory == InitHistory /\ [][Next]_vars

---------------------------------------------------------------------------
\* The callers of deleteImage that report its result: the direct asset
\* delete and the routers with a strict delete, one request at a time.

NextAssets ==
  \/ CloudinaryRoutes("r1") \/ BlogRoutes("r1") \/ ClientRoutes("r1")
  \/ Reply("r1")

SpecAssets == Init /\ [][NextAssets]_vars

---------------------------------------------------------------------------
\* The resolver on its own

MaxSegs == 5

\* Path segments a url is made of: empty, the marker, a version, a folder,
\* a dotted folder, a file with an extension, a segment that only ends in
\* "upload".
Segs ==
  {<<>>, <<"upload">>, <<"v1">>, <<"f">>, <<"f", ".", "d">>, <<"n", ".", "jpg">>,
   <<"x", "upload">>}

\* The urls of at most n segments, and the values that are no string.
Urls(n) ==
  {undefined, null}
    \cup UNION {{Join(parts) : parts \in [1..k -> Segs]} : k \in 1..n}

InitResolver ==
  /\ db = [i \in RecIds |-> NoDoc]
  /\ remote = {PublicIdOf(n) : n \in Names}
  /\ req = [s \in Slots |-> Idle]
  /\ nextId = 1
  /\ orphans = {}
  /\ clean = TRUE
  /\ tracking = FALSE
  /\ arg \in Urls(MaxSegs)
  /\ ret = undefined

\* extractPublicIdFromUrl(arg) of the portfolio router
ResolvePortfolio ==
  /\ ret = undefined
  /\ ret' = extractPublicIdFromUrl(arg)
  /\ UNCHANGED <<db, remote, req, nextId, orphans, clean, tracking, arg>>

\* extractPublicIdFromUrl(arg) of the blog and client routers
ResolveUnguarded ==
  /\ ret = undefined
  /\ ret' = extractPublicIdFromUrlUnguarded(arg)
  /\ UNCHANGED <<db, remote, req, nextId, orphans, clean, tracking, arg>>

NextResolver == ResolvePortfolio \/ ResolveUnguarded

SpecResolver == InitResolver /\ [][NextResolver]_vars

---------------------------------------------------------------------------
\* Two concurrent requests on one record

\* The record both requests address, as its create handler stored it with
\* the reference {U(a), "a"}.
ConcDocs ==
  {[NoDoc EXCEPT !.coll = coll, !.image = UrlOf("a"), !.publicId = PublicIdOf("a"),
                 !.title = IF coll = "portfolio" THEN <<"t1">> ELSE undefined] :
     coll \in {"client", "team", "portfolio"}}

\* The asset a handler slot's caller uploaded for its update.
UploadOf(s) == IF s = "r1" THEN "b" ELSE "c"

InitConc ==
  /\ db \in {[i \in RecIds |-> IF i = 1 THEN doc ELSE NoDoc] : doc \in ConcDocs}
  /\ remote = {PublicIdOf(n) : n \in Names \cup {UploadOf(s) : s \in Slots}}
  /\ req = [s \in Slots |-> Idle]
  /\ nextId = 2
  /\ orphans = {}
  /\ clean = TRUE
  /\ arg = undefined
  /\ ret = undefined
  /\ tracking = FALSE

\* No request has been answered yet: one that arrives now runs concurrently
\* with the others.
Overlapping == \A s \in Slots : req[s].pc # "done"

\* An update of the record arrives, superseding its reference with the
\* caller's upload: url and identifier, or the url alone.
ConcUpdateRecv(s) ==
  /\ Overlapping
  /\ db[1].coll # "none"
  /\ \E publicId \in {PublicIdOf(UploadOf(s)), undefined} :
       Receive(s, NewReq("update", db[1].coll, 1,
                         RefBody([image |-> UrlOf(UploadOf(s)), publicId |-> publicId]),
                         "find"))
  /\ Record

\* A delete of the record arrives: DELETE /:id, or the portfolio's bulk delete.
ConcDeleteRecv(s) ==
  /\ s = "r1"
  /\ Overlapping
  /\ db[1].coll # "none"
  /\ \/ Receive(s, NewReq("delete", db[1].coll, 1, NoBody, "find"))
     \/ /\ db[1].coll = "portfolio"
        /\ Receive(s, NewReq("bulk", "portfolio", 0, [NoBody EXCEPT !.ids = {1}], "find"))
  /\ Record

ConcRoutes(s) ==
  \/ ConcUpdateRecv(s) \/ ConcDeleteRecv(s)
  \/ ClientPutFind(s) \/ ClientPutSave(s) \/ ClientPutDestroy(s)
  \/ ClientDeleteFind(s) \/ ClientDeleteDestroy(s) \/ ClientDeleteRemove(s)
  \/ TeamPutFind(s) \/ TeamPutDestroy(s) \/ TeamPutSave(s)
  \/ TeamDeleteFind(s) \/ TeamDeleteDestroy(s) \/ TeamDeleteRemove(s)
  \/ PortfolioPutFind(s) \/ PortfolioPutMain(s) \/ PortfolioPutSave(s)
  \/ PortfolioDeleteFind(s) \/ PortfolioDeleteImages(s) \/ PortfolioDeleteRemove(s)
  \/ PortfolioBulkFind(s) \/ PortfolioBulkImages(s) \/ PortfolioBulkRemove(s)

NextConc == \E s \in Slots : ConcRoutes(s)

SpecConc == InitConc /\ [][NextConc]_vars

---------------------------------------------------------------------------
\* Properties

Done(r) == r.pc = "done"
Strict == {"blog", "client"}
BestEffort == {"team", "portfolio"}
CallFailed(c) == c.out \in {"error", "throw"}
AnyFailed(r) == \E i \in 1..Len(r.calls) : CallFailed(r.calls[i])
CalledIds(r) == {r.calls[i].pid : i \in 1..Len(r.calls)}

\* C1: a strict-policy (blog, client) single delete whose remote delete call
\* returned another outcome than "ok"/"not found", or threw, reports failure and
\* leaves the record in the store, whether the identifier was stored or derived
\* from the url.
C1_StrictDeleteFailureKeepsRecord ==
  \A s \in Slots :
    LET r == req[s]
    IN (Done(r) /\ r.op = "delete" /\ r.coll \in Strict /\ AnyFailed(r))
         => (r.resp.status # 200 /\ Found(r.coll, r.id))

\* C2: in an update of a client, team member or portfolio, every remote
\* deletion is issued after the update was persisted; when persistence fails
\* or the update is rejected no deletion has been issued.
C2_UpdateDeletesAfterPersist ==
  \A s \in Slots :
    LET r == req[s]
    IN (r.op = "update" /\ r.coll \in {"client", "team", "portfolio"})
         => \A i \in 1..Len(r.calls) : r.calls[i].wrote

\* C3: an update that supplies a url and an identifier, both different from
\* the stored ones, of a record that has both, makes exactly one remote delete
\* call, for the old identifier, and the store shows the new url and identifier.
C3_UpdateDeletesOldAssetOnce ==
  \A s \in Slots :
    LET r == req[s]
    IN (/\ Done(r) /\ r.op = "update" /\ r.resp.status = 200
        /\ Truthy(r.doc.image) /\ Truthy(r.doc.publicId)
        /\ Truthy(r.body.image) /\ Truthy(r.body.publicId)
        /\ r.body.image # r.doc.image /\ r.body.publicId # r.doc.publicId)
         => (/\ Len(r.calls) = 1
             /\ r.calls[1].pid = r.doc.publicId
             /\ db[r.id].image = r.body.image
             /\ db[r.id].publicId = r.body.publicId)

\* C4: a single or bulk delete of portfolio projects attempts one remote
\* deletion for every reference (main image, each gallery image) of every
\* loaded project, each identifier resolved on its own.
C4_EveryOwnedReferenceDeleted ==
  \A s \in Slots :
    LET r == req[s]
    IN (/\ r.op \in {"delete", "bulk"} /\ r.coll = "portfolio"
        /\ r.pc \in {"dmi", "remove", "done"})
         => \A i \in 1..Len(r.docs) : OwnedIds(r.docs[i]) \subseteq CalledIds(r)

\* C5: a request rejected with a validation error has written nothing to the
\* store and issued no remote deletion.
C5_RejectedRequestDidNothing ==
  \A s \in Slots :
    LET r == req[s]
    IN (Done(r) /\ r.resp.status = 400) => (~r.wrote /\ Len(r.calls) = 0)

\* C6: a single delete of a team member or portfolio project that loaded the
\* record, whatever the outcome of its remote deletions, removes the record and
\* reports success, provided no store call failed.
C6_BestEffortDeleteRemoves ==
  \A s \in Slots :
    LET r == req[s]
    IN (/\ Done(r) /\ r.op = "delete" /\ r.coll \in BestEffort
        /\ r.doc.coll # "none" /\ ~r.storeFailed)
         => (r.resp.status = 200 /\ ~Found(r.coll, r.id))

C6_Witness ==
  \E s \in Slots :
    LET r == req[s]
    IN /\ Done(r) /\ r.op = "delete" /\ r.coll = "team"
       /\ \E i \in 1..Len(r.calls) : r.calls[i].out = "throw"
       /\ r.resp.status = 200 /\ ~Found(r.coll, r.id)

\* C7 as stated: a strict-policy single delete whose remote delete call returned
\* "ok" or "not found" removes the record and reports success.
C7_StrictDeleteRemovesOnOk_Original ==
  \A s \in Slots :
    LET r == req[s]
    IN (/\ Done(r) /\ r.op = "delete" /\ r.coll \in Strict
        /\ Len(r.calls) > 0
        /\ \A i \in 1..Len(r.calls) : r.calls[i].out \in {"ok", "not found"})
         => (r.resp.status = 200 /\ ~Found(r.coll, r.id))

\* C7: a strict-policy single delete whose remote delete call returned "ok" or
\* "not found" removes the record and reports success, provided the store's
\* own delete call does not fail.
C7_StrictDeleteRemovesOnOk ==
  \A s \in Slots :
    LET r == req[s]
    IN (/\ Done(r) /\ r.op = "delete" /\ r.coll \in Strict
        /\ Len(r.calls) > 0
        /\ \A i \in 1..Len(r.calls) : r.calls[i].out \in {"ok", "not found"}
        /\ ~r.storeFailed)
         => (r.resp.status = 200 /\ ~Found(r.coll, r.id))

C7_Witness ==
  \E s \in Slots :
    LET r == req[s]
    IN /\ Done(r) /\ r.op = "delete" /\ r.coll \in Strict
       /\ Truthy(r.doc.publicId)
       /\ Len(r.calls) = 1 /\ r.calls[1].out = "not found"
       /\ r.resp.status = 200 /\ ~Found(r.coll, r.id)

\* The stored document shows what the update supplied.
Reflects(doc, body) ==
  /\ Truthy(body.image) => doc.image = body.image
  /\ Truthy(body.publicId) => doc.publicId = body.publicId
  /\ body.gallery # noArray => doc.gallery = body.gallery

\* C8: an update of a client, team member or portfolio whose remote delete
\* call for the old asset threw or returned a failure still reports success,
\* and the stored record shows the new reference.
C8_CleanupFailureNeverBlocksUpdate ==
  \A s \in Slots :
    LET r == req[s]
    IN (/\ Done(r) /\ r.op = "update" /\ r.coll \in {"client", "team", "portfolio"}
        /\ AnyFailed(r))
         => (r.resp.status = 200 /\ Found(r.coll, r.id) /\ Reflects(db[r.id], r.body))

\* C9 as stated: a bulk delete removes every record matching one of the ids,
\* whatever the outcome of each asset deletion, and reports as deleted count
\* the number of records it loaded.
C9_BulkDeleteRemovesAll_Original ==
  \A s \in Slots :
    LET r == req[s]
    IN (Done(r) /\ r.op = "bulk" /\ Len(r.docs) > 0)
         => (/\ r.resp.status = 200
             /\ r.resp.deletedCount = Len(r.docs)
             /\ \A i \in r.body.ids : ~Found("portfolio", i))

\* C9: a bulk delete, with no concurrent request, removes every record
\* matching one of the ids, whatever the outcome of each asset deletion, and
\* reports as deleted count the number of records it loaded, provided the
\* store's deleteMany call does not fail.
C9_BulkDeleteRemovesAll ==
  \A s \in Slots :
    LET r == req[s]
    IN (Done(r) /\ r.op = "bulk" /\ Len(r.docs) > 0 /\ ~r.storeFailed)
         => (/\ r.resp.status = 200
             /\ r.resp.deletedCount = Len(r.docs)
             /\ \A i \in r.body.ids : ~Found("portfolio", i))

C9_Witness ==
  \E s \in Slots :
    LET r == req[s]
    IN /\ Done(r) /\ r.op = "bulk" /\ Len(r.docs) = 2
       /\ \E i \in 1..Len(r.calls) : r.calls[i].out = "error"
       /\ \E i \in 1..Len(r.calls) : r.calls[i].out = "throw"
       /\ r.resp.status = 200 /\ r.resp.deletedCount = 2
       /\ \A i \in r.body.ids : ~Found("portfolio", i)

\* C10: the result of a bulk delete in which an asset deletion failed differs
\* from the result the same batch gives when every deletion succeeds.
C10_BulkResultNamesFailures ==
  \A s \in Slots :
    LET r == req[s]
    IN (Done(r) /\ r.op = "bulk" /\ r.resp.status = 200 /\ AnyFailed(r))
         => r.resp # [status |-> 200, deletedCount |-> Len(r.docs)]

\* The pids of the calls r has issued, in launch order.
Launched(r) == [i \in 1..Len(r.calls) |-> r.calls[i].pid]
Results == {"ok", "not found", "error", "throw"}

\* C11: a bulk delete launches all its asset deletions before it awaits any;
\* a failed or rejected deletion never keeps another from being issued or
\* from completing; deleteMany is issued only after every launched deletion
\* has settled.
C11_BulkLaunchesAllThenAwaitsAll ==
  \A s \in Slots :
    LET r == req[s]
    IN (r.op = "bulk" /\ r.coll = "portfolio" /\ Len(r.docs) > 0)
         => /\ Launched(r) = deleteMultipleImages(imagesToDelete(r.docs),
                                                  publicIdsToDelete(r.docs))
            /\ \A i \in 1..Len(r.calls) : r.calls[i].out \in Results \cup {"pending"}
            /\ r.pc = "dmi" => Pending(r) # {}
            /\ (r.pc \in {"remove", "done"} \/ r.wrote) => Pending(r) = {}

C11_Witness ==
  \E s \in Slots :
    LET r == req[s]
    IN /\ Done(r) /\ r.op = "bulk" /\ r.resp.status = 200
       /\ Len(r.calls) = 2
       /\ r.calls[1].out = "throw" /\ r.calls[2].out \in {"ok", "not found"}

\* C12: a bulk delete (portfolio, career, contact) with a non-empty id list
\* none of whose ids matches a record answers not-found, issues no remote
\* deletion and removes nothing.
C12_BulkNoMatchIsNotFound ==
  \A s \in Slots :
    LET r == req[s]
    IN (/\ Done(r) /\ r.op = "bulk" /\ r.body.ids # {} /\ ~r.storeFailed
        /\ Len(r.docs) = 0 /\ r.resp.deletedCount <= 0)
         => (r.resp.status = 404 /\ Len(r.calls) = 0)

\* C13: a single delete of a blog, client or team member whose reference has
\* an explicit identifier calls the remote delete with exactly that identifier;
\* with no explicit identifier and a url the resolver derives one from, it
\* calls the remote delete with the derived identifier.
C13_DeleteResolvesIdentifier ==
  \A s \in Slots :
    LET r == req[s]
        derived == extractPublicIdFromUrl(r.doc.image)
    IN (/\ r.op = "delete" /\ r.coll \in {"blog", "client", "team"}
        /\ r.doc.coll # "none" /\ r.pc \in {"destroy", "remove", "done"})
         => IF Truthy(r.doc.publicId) THEN Launched(r) = <<r.doc.publicId>>
            ELSE Truthy(derived) => Launched(r) = <<derived>>

\* C14: an update that changes a field's reference, when the old reference
\* has no explicit identifier but a url the resolver derives one from,
\* attempts a remote deletion with the derived identifier.
C14_UpdateDeletesDerivedOld ==
  \A s \in Slots :
    LET r == req[s]
        derived == extractPublicIdFromUrl(r.doc.image)
    IN (/\ Done(r) /\ r.op = "update" /\ r.resp.status = 200
        /\ r.coll \in {"client", "team", "portfolio"}
        /\ Truthy(r.body.image) /\ r.body.image # r.doc.image
        /\ ~Truthy(r.doc.publicId) /\ Truthy(r.doc.image) /\ Truthy(derived))
         => derived \in CalledIds(r)

AssetColls == {"blog", "client", "team", "portfolio"}

\* The request supplies the stored reference again, or none.
SameOrNoRef(r) ==
  \/ ~Truthy(r.body.image) /\ ~Truthy(r.body.publicId)
  \/ r.body.image = r.doc.image /\ r.body.publicId = r.doc.publicId

\* The launches an update makes for the gallery images it lists as removed.
RemovedLaunches(r) ==
  IF r.coll = "portfolio" /\ r.body.removed # noArray /\ Len(r.body.removed) > 0
    THEN deleteMultipleImages(r.body.removed, r.body.removedIds)
    ELSE <<>>

C16_NewIdentifierDeletesOld ==
  \A s \in Slots :
    LET r == req[s]
    IN (/\ Done(r) /\ r.op = "update" /\ r.resp.status = 200
        /\ r.coll \in {"client", "team", "portfolio"}
        /\ Truthy(r.body.publicId) /\ Truthy(r.doc.publicId)
        /\ r.body.publicId # r.doc.publicId
        /\ ~Truthy(r.body.image) \/ r.body.image = r.doc.image)
         => (/\ db[r.id].publicId = r.body.publicId
             /\ r.doc.publicId \in CalledIds(r))

\* A single-record update or delete is running and its id matches no record.
RunningOnMissing(r) ==
  /\ r.op \in {"update", "delete"} /\ r.pc \notin {"idle", "done"}
  /\ ~Found(r.coll, r.id)

C18_StrictOrphanOnlyOnCleanupFailure ==
  \A s \in Slots :
    LET r == req[s]
        old == Resolve(r.doc.image, r.doc.publicId)
    IN (/\ Done(r) /\ r.coll \in Strict /\ r.op \in {"update", "delete"}
        /\ r.resp.status = 200 /\ Truthy(old)
        /\ ~(r.op = "update" /\ AnyFailed(r)))
         => ~Orphaned(old)

\* C19: an asset that a finished request left orphaned (no live record
\* references it, the remote object exists) stays so: no later operation
\* makes a live record reference it again or removes it from the remote store.
C19_OrphanedIsFinal ==
  \A publicId \in orphans : Orphaned(publicId)

\* C20: an update of a live record that leaves the url of an asset field
\* unchanged never changes or clears the field's stored non-empty identifier.
C20_IdentifierKeptWithUrl ==
  \A s \in Slots :
    LET r == req[s]
    IN (/\ Done(r) /\ r.op = "update" /\ r.coll \in AssetColls
        /\ r.resp.status = 200 /\ Found(r.coll, r.id)
        /\ Truthy(r.doc.publicId) /\ db[r.id].image = r.doc.image)
         => db[r.id].publicId = r.doc.publicId


\* No handler is between receiving a request and answering it.
Quiescent == \A s \in Slots : req[s].pc \in {"idle", "done"}

\* The objects the urls and the non-empty identifiers of a document name.
StoredIds(doc) ==
  {id \in {extractPublicIdFromUrl(doc.image), doc.publicId}
            \cup {extractPublicIdFromUrl(doc.gallery[i]) : i \in 1..Len(doc.gallery)}
            \cup {doc.galleryIds[i] : i \in 1..Len(doc.galleryIds)} : Truthy(id)}

\* C21: after any sequence of non-concurrent operations in which no store
\* call failed and every supplied reference named a distinct, freshly
\* uploaded object, every url and every non-empty identifier stored on a live
\* record names an object that exists in the remote store.
C21_StoredReferencesExist ==
  (tracking /\ clean /\ Quiescent)
    => \A i \in RecIds : db[i].coll # "none" => StoredIds(db[i]) \subseteq remote


\* Both slots have completed an update of the record and no store call failed.
BothUpdated ==
  \A s \in Slots :
    /\ Done(req[s]) /\ req[s].op = "update" /\ ~req[s].storeFailed
    /\ ~AnyFailed(req[s])

\* C22: two concurrent updates of one record, each superseding the reference
\* with its own fresh asset and no store call failing, both report success,
\* issue remote deletes only for the reference stored before either of them,
\* and leave the record referencing an asset that still exists.
C22_ConcurrentUpdatesKeepLiveAsset ==
  BothUpdated =>
    /\ \A s \in Slots : req[s].resp.status = 200
    /\ \A s \in Slots : CalledIds(req[s]) \subseteq {PublicIdOf("a")}
    /\ OwnedIds(db[1]) \subseteq remote


\* The whole path segments of a url that are the segment "upload", by the
\* position of the token.
UploadSegments(url) ==
  {i \in 1..Len(url) : /\ url[i] = "upload"
                        /\ (i = 1 \/ url[i-1] = "/")
                        /\ (i = Len(url) \/ url[i+1] = "/")}

\* What follows the first "upload" segment and the one segment after it;
\* empty when there is no such path.
ObjectPath(url) ==
  LET k == CHOOSE i \in UploadSegments(url) : \A j \in UploadSegments(url) : i <= j
      slashes == {j \in (k+2)..Len(url) : url[j] = "/"}
  IN IF slashes = {} THEN <<>>
     ELSE SubSeq(url, (CHOOSE j \in slashes : \A l \in slashes : j <= l) + 1, Len(url))

\* The url is empty or no string, has no "upload" segment, or has no object
\* path after the version segment.
NoObject(url) ==
  \/ ~Truthy(url)
  \/ UploadSegments(url) = {}
  \/ ObjectPath(url) = <<>>

\* C23: extractPublicIdFromUrl returns the path after the first "upload"
\* segment, less the one segment that follows it and less the trailing file
\* extension, and returns absent (null) for a url that is empty, has no
\* "upload" segment or has no object path after the version segment.
C23_ResolverResult ==
  ret # undefined =>
    ret = IF NoObject(arg) THEN null ELSE StripExtension(ObjectPath(arg))


\* Request r reports to its caller the result of the deleteImage call it
\* made: the direct asset delete, and the strict single deletes.
ReportsDelete(r) ==
  /\ Done(r) /\ Len(r.calls) = 1 /\ ~r.storeFailed
  /\ r.op = "destroy" \/ (r.op = "delete" /\ r.coll \in Strict)

\* C24: every caller of deleteImage that reports a result to its own caller
\* reports success for the outcomes "ok" and "not found" and failure for any
\* other returned outcome and for a thrown error; this holds for the direct
\* asset delete and for the strict deletes.
C24_DeleteOutcomeReported ==
  \A s \in Slots :
    LET r == req[s]
    IN ReportsDelete(r)
         => (r.resp.status = 200 <=> r.calls[1].out \in {"ok", "not found"})


\* C25: the create of every record type issues no call to the remote asset
\* store, not even a compensating deletion when persisting the record
\* fails: no step of a create changes the remote store or adds a call.
C25_CreateLeavesRemoteAlone ==
  [][\A s \in Slots :
       req'[s].op = "create" => (remote' = remote /\ req'[s].calls = <<>>)]_vars

C25_Witness ==
  \E s \in Slots :
    LET r == req[s]
    IN /\ Done(r) /\ r.op = "create" /\ r.coll = "portfolio"
       /\ r.storeFailed /\ r.resp.status = 500
       /\ Truthy(r.body.image) /\ Truthy(r.body.publicId)
       /\ r.calls = <<>> /\ r.body.publicId \in remote


\* C26: in a single-record delete of an asset-bearing type the removal of the
\* record is issued only once every remote deletion of the request has
\* returned or thrown, and the request issues no remote deletion after the
\* removal.
C26_RecordRemovedAfterAssetCalls ==
  \A s \in Slots :
    LET r == req[s]
    IN (/\ r.op = "delete" /\ r.coll \in AssetColls
        /\ r.pc \in {"remove", "done"} \/ r.wrote)
         => /\ Pending(r) = {}
            /\ \A i \in 1..Len(r.calls) : ~r.calls[i].wrote

C26_Witness ==
  \E s \in Slots :
    LET r == req[s]
    IN /\ Done(r) /\ r.op = "delete" /\ r.coll = "portfolio"
       /\ r.resp.status = 200 /\ r.wrote /\ ~Found(r.coll, r.id)
       /\ Len(r.calls) = 2
       /\ r.calls[1].out = "throw" /\ r.calls[2].out = "ok"


\* C27: an update, delete or bulk delete that reports failure (validation,
\* not-found, asset-store or persistent-store error) has left both stores as
\* they were: it wrote nothing to the document store and none of its remote
\* deletions removed an object.
C27_FailureLeavesStoresAlone ==
  \A s \in Slots :
    LET r == req[s]
    IN (/\ Done(r) /\ r.op \in {"update", "delete", "bulk"}
        /\ r.resp.status >= 400)
         => /\ ~r.wrote
            /\ \A i \in 1..Len(r.calls) : r.calls[i].out # "ok"


\* The identifiers stored on, or derived from a url stored on, the documents
\* request r loaded.
LoadedStoredIds(r) ==
  StoredIds(r.doc) \cup UNION {StoredIds(r.docs[i]) : i \in 1..Len(r.docs)}

\* C28: every remote deletion an update, delete or bulk delete issues targets
\* an identifier stored on, or derived from a url stored on, a record the
\* operation loaded.
C28_DeletesOnlyLoadedAssets ==
  \A s \in Slots :
    LET r == req[s]
    IN r.op \in {"update", "delete", "bulk"}
         => CalledIds(r) \subseteq LoadedStoredIds(r)


\* C29: after a successful update of a client, team member or portfolio
\* project the stored identifier is empty or names the object of the stored
\* url; after an update that changed the url it is not the identifier of the
\* superseded asset.
C29_IdentifierFollowsUrl ==
  \A s \in Slots :
    LET r == req[s]
    IN (/\ Done(r) /\ r.op = "update" /\ r.resp.status = 200
        /\ r.coll \in {"client", "team", "portfolio"} /\ Found(r.coll, r.id))
         => /\ Truthy(db[r.id].publicId)
                 => db[r.id].publicId = extractPublicIdFromUrl(db[r.id].image)
            /\ (db[r.id].image # r.doc.image /\ Truthy(r.doc.publicId))
                 => db[r.id].publicId # r.doc.publicId


\* A delete in slot r1 and an update in slot r2 have both completed with no
\* store call failing, and the record is gone.
DeletedAndUpdated ==
  /\ \A s \in Slots : Done(req[s]) /\ ~req[s].storeFailed /\ ~AnyFailed(req[s])
  /\ req["r1"].op \in {"delete", "bulk"} /\ req["r1"].resp.status = 200
  /\ req["r2"].op = "update"
  /\ db[1].coll = "none"

\* The objects named by the version of the record that was removed: the one
\* the update saved when its save came before the removal (url of the body,
\* identifier of the body or else the loaded one), else the one the delete
\* loaded.
RemovedIds ==
  LET u == req["r2"]
  IN IF u.wrote
       THEN {id \in {extractPublicIdFromUrl(u.body.image),
                      IF u.body.publicId # undefined THEN u.body.publicId
                      ELSE u.doc.publicId} : Truthy(id)}
       ELSE LoadedStoredIds(req["r1"])

\* C30: whatever the interleaving of a single or bulk delete with a
\* concurrent update of the same record, with no store call failing, once
\* both have completed and the record is removed none of the assets that the
\* removed version of the record referenced still exists remotely.
C30_DeleteRemovesAssetsOfRemovedVersion ==
  DeletedAndUpdated => RemovedIds \cap remote = {}

====
